---------------------------- MODULE Spec2Model ----------------------------
(***************************************************************************)
(* The Infura JSON-RPC middleware: createInfuraMiddleware, its retry loop, *)
(* performFetch and fetchConfigFromReq, in the three variants the          *)
(* repository holds:                                                       *)
(*   "brave"  src/unnamed/part_000 lines 1-208   (awaited credential cache)*)
(*   "ctor"   src/unnamed/part_000 lines 210-356 (lookup at construction)  *)
(*   "inline" src/src/index.js                   (lookup inside            *)
(*                                                fetchConfigFromReq)      *)
(* Texts (error messages, response bodies) are sequences of one-character  *)
(* strings, so that String.prototype.includes and JSON.parse are computed. *)
(***************************************************************************)
EXTENDS Integers, Sequences, FiniteSets

\* src/unnamed/part_000:6-11: the phrases of RETRIABLE_ERRORS, as texts.
GatewayTimeoutPhrase ==
    <<"G", "a", "t", "e", "w", "a", "y", " ", "t", "i", "m", "e", "o", "u", "t">>
ETIMEDOUTPhrase ==
    <<"E", "T", "I", "M", "E", "D", "O", "U", "T">>
ECONNRESETPhrase ==
    <<"E", "C", "O", "N", "N", "R", "E", "S", "E", "T">>
SyntaxErrorPhrase ==
    <<"S", "y", "n", "t", "a", "x", "E", "r", "r", "o", "r">>

\* The messages of the failures performFetch raises (part_000:89-103).
MethodNotFoundMsg ==
    <<"T", "h", "e", " ", "m", "e", "t", "h", "o", "d", " ", "d", "o", "e", "s", " ", "n", "o",
      "t", " ", "e", "x", "i", "s", "t", " ", "/", " ", "i", "s", " ", "n", "o", "t", " ", "a",
      "v", "a", "i", "l", "a", "b", "l", "e", ".">>
RateLimitMsg ==
    <<"R", "e", "q", "u", "e", "s", "t", " ", "i", "s", " ", "b", "e", "i", "n", "g", " ", "r",
      "a", "t", "e", " ", "l", "i", "m", "i", "t", "e", "d", ".">>
GatewayTimeoutMsg ==
    <<"G", "a", "t", "e", "w", "a", "y", " ", "t", "i", "m", "e", "o", "u", "t", ",", " ", "r",
      "e", "q", "u", "e", "s", "t", " ", "t", "o", "o", "k", " ", "t", "o", "o", " ", "l", "o",
      "n", "g", " ", "t", "o", " ", "p", "r", "o", "c", "e", "s", "s", ".">>

\* The framing of the retries-exhausted message (part_000:69).
ExhaustedPrefix ==
    <<"I", "n", "f", "u", "r", "a", "P", "r", "o", "v", "i", "d", "e", "r", " ", "-", " ", "c",
      "a", "n", "n", "o", "t", " ", "c", "o", "m", "p", "l", "e", "t", "e", " ", "r", "e", "q",
      "u", "e", "s", "t", ",", " ", "a", "l", "l", " ", "r", "e", "t", "r", "i", "e", "s", " ",
      "h", "a", "v", "e", " ", "b", "e", "e", "n", " ", "e", "x", "h", "a", "u", "s", "t", "e",
      "d", ".", "\n", "O", "r", "i", "g", "i", "n", "a", "l", " ", "E", "r", "r", "o", "r",
      ":", "\n">>
ExhaustedSuffix ==
    <<"\n", "\n">>

\* Names and messages of the failures raised by the runtime and the transport.
ErrorName ==
    <<"E", "r", "r", "o", "r">>
SyntaxErrorName ==
    <<"S", "y", "n", "t", "a", "x", "E", "r", "r", "o", "r">>
TypeErrorName ==
    <<"T", "y", "p", "e", "E", "r", "r", "o", "r">>
FetchErrorName ==
    <<"F", "e", "t", "c", "h", "E", "r", "r", "o", "r">>
JsonSyntaxMsg ==
    <<"U", "n", "e", "x", "p", "e", "c", "t", "e", "d", " ", "t", "o", "k", "e", "n", " ", "i",
      "n", " ", "J", "S", "O", "N">>
NullResultMsg ==
    <<"C", "a", "n", "n", "o", "t", " ", "r", "e", "a", "d", " ", "p", "r", "o", "p", "e", "r",
      "t", "y", " ", "'", "r", "e", "s", "u", "l", "t", "'", " ", "o", "f", " ", "n", "u", "l",
      "l">>
ConnTimedOutMsg ==
    <<"c", "o", "n", "n", "e", "c", "t", " ", "E", "T", "I", "M", "E", "D", "O", "U", "T">>
ConnResetMsg ==
    <<"r", "e", "a", "d", " ", "E", "C", "O", "N", "N", "R", "E", "S", "E", "T">>
PermissionDeniedMsg ==
    <<"p", "e", "r", "m", "i", "s", "s", "i", "o", "n", " ", "d", "e", "n", "i", "e", "d">>

\* The literal of part_000:106.
NotFoundText ==
    <<"N", "o", "t", " ", "F", "o", "u", "n", "d">>

\* Raw response bodies the gateway is made to answer with.
BodyResult ==
    <<"{", "\"", "r", "e", "s", "u", "l", "t", "\"", ":", "\"", "0", "x", "1", "\"", "}">>
BodyNullResult ==
    <<"{", "\"", "r", "e", "s", "u", "l", "t", "\"", ":", "n", "u", "l", "l", "}">>
BodyError ==
    <<"{", "\"", "e", "r", "r", "o", "r", "\"", ":", "{", "\"", "c", "o", "d", "e", "\"", ":",
      "-", "3", "2", "0", "0", "0", "}", "}">>
BodyBoth ==
    <<"{", "\"", "r", "e", "s", "u", "l", "t", "\"", ":", "\"", "0", "x", "1", "\"", ",", "\"",
      "e", "r", "r", "o", "r", "\"", ":", "\"", "b", "a", "d", "\"", "}">>
BodyNull ==
    <<"n", "u", "l", "l">>
BodyHtml ==
    <<"<", "h", "t", "m", "l", ">">>
BodyUpstreamSyntax ==
    <<"u", "p", "s", "t", "r", "e", "a", "m", " ", "S", "y", "n", "t", "a", "x", "E", "r", "r",
      "o", "r">>
BodyLowerTimeout ==
    <<"g", "a", "t", "e", "w", "a", "y", " ", "t", "i", "m", "e", "o", "u", "t">>
BodyDenied ==
    <<"p", "e", "r", "m", "i", "s", "s", "i", "o", "n", " ", "d", "e", "n", "i", "e", "d">>

\* Property names and literals of the JSON text.
ResultKey ==
    <<"r", "e", "s", "u", "l", "t">>
ErrorKey ==
    <<"e", "r", "r", "o", "r">>
NullLit ==
    <<"n", "u", "l", "l">>
TrueLit ==
    <<"t", "r", "u", "e">>
FalseLit ==
    <<"f", "a", "l", "s", "e">>

\* Method names: postMethods and the literals of part_000:106, 118, 123.
EthGetBlockByNumber ==
    <<"e", "t", "h", "_", "g", "e", "t", "B", "l", "o", "c", "k", "B", "y", "N", "u", "m", "b",
      "e", "r">>
EthBlockNumber ==
    <<"e", "t", "h", "_", "b", "l", "o", "c", "k", "N", "u", "m", "b", "e", "r">>
EthCall ==
    <<"e", "t", "h", "_", "c", "a", "l", "l">>
EthEstimateGas ==
    <<"e", "t", "h", "_", "e", "s", "t", "i", "m", "a", "t", "e", "G", "a", "s">>
EthSendRawTransaction ==
    <<"e", "t", "h", "_", "s", "e", "n", "d", "R", "a", "w", "T", "r", "a", "n", "s", "a", "c",
      "t", "i", "o", "n">>
EthGetBalance ==
    <<"e", "t", "h", "_", "g", "e", "t", "B", "a", "l", "a", "n", "c", "e">>

\* Literals of createInfuraMiddleware and fetchConfigFromReq.
MainnetText ==
    <<"m", "a", "i", "n", "n", "e", "t">>
InternalText ==
    <<"i", "n", "t", "e", "r", "n", "a", "l">>
BraveHost ==
    <<"i", "n", "f", "u", "r", "a", ".", "b", "r", "a", "v", "e">>
BraveStagingHost ==
    <<"s", "t", "a", "g", "i", "n", "g", "-", "i", "n", "f", "u", "r", "a", ".", "b", "r", "a",
      "v", "e", "s", "o", "f", "t", "w", "a", "r", "e">>
PostText ==
    <<"P", "O", "S", "T">>
GetText ==
    <<"G", "E", "T">>
AcceptHeader ==
    <<"A", "c", "c", "e", "p", "t">>
ContentTypeHeader ==
    <<"C", "o", "n", "t", "e", "n", "t", "-", "T", "y", "p", "e">>
ApplicationJson ==
    <<"a", "p", "p", "l", "i", "c", "a", "t", "i", "o", "n", "/", "j", "s", "o", "n">>
XEthMethodHeader ==
    <<"X", "-", "E", "t", "h", "-", "M", "e", "t", "h", "o", "d">>
InfuraSourceHeader ==
    <<"I", "n", "f", "u", "r", "a", "-", "S", "o", "u", "r", "c", "e">>
XEthGetBlockHeader ==
    <<"X", "-", "E", "t", "h", "-", "G", "e", "t", "-", "B", "l", "o", "c", "k">>
XEthBlockHeader ==
    <<"X", "-", "E", "t", "h", "-", "B", "l", "o", "c", "k">>
XBraveKeyHeader ==
    <<"x", "-", "b", "r", "a", "v", "e", "-", "k", "e", "y">>
ObjectObjectText ==
    <<"[", "o", "b", "j", "e", "c", "t", " ", "O", "b", "j", "e", "c", "t", "]">>
UndefinedText ==
    <<"u", "n", "d", "e", "f", "i", "n", "e", "d">>

\* Property names of the request.
IdKey ==
    <<"i", "d">>
JsonrpcKey ==
    <<"j", "s", "o", "n", "r", "p", "c">>
MethodKey ==
    <<"m", "e", "t", "h", "o", "d">>
ParamsKey ==
    <<"p", "a", "r", "a", "m", "s">>
OriginKey ==
    <<"o", "r", "i", "g", "i", "n">>

\* Values the environment supplies.
ProjectIdText ==
    <<"p", "i", "d">>
BraveKeyText ==
    <<"k", "e", "y">>
RopstenText ==
    <<"r", "o", "p", "s", "t", "e", "n">>
MetamaskText ==
    <<"m", "e", "t", "a", "m", "a", "s", "k">>
ExampleOrigin ==
    <<"d", "a", "p", "p", ".", "e", "x", "a", "m", "p", "l", "e">>
JsonrpcVersion ==
    <<"2", ".", "0">>
HexOne ==
    <<"0", "x", "1">>
LatestText ==
    <<"l", "a", "t", "e", "s", "t">>

\* The pieces of the URL templates (part_000:147, 176, 324; index.js:103).
HttpsText ==
    <<"h", "t", "t", "p", "s", ":", "/", "/">>
DotComSlash ==
    <<".", "c", "o", "m", "/">>
InfuraPath ==
    <<".", "i", "n", "f", "u", "r", "a", ".", "i", "o", "/", "v", "3", "/">>
ParamsQuery ==
    <<"?", "p", "a", "r", "a", "m", "s", "=">>

(***************************************************************************)
(* Texts                                                                   *)
(***************************************************************************)

\* String.prototype.includes (part_000:61): p occurs in s as a contiguous,
\* case-sensitive run of characters.
Includes(s, p) ==
    \E i \in 0..(Len(s) - Len(p)) : \A j \in 1..Len(p) : s[i + j] = p[j]

\* RETRIABLE_ERRORS without its first phrase.
RETRIABLE_ERRORS_NoGatewayTimeout ==
    <<ETIMEDOUTPhrase, ECONNRESETPhrase, SyntaxErrorPhrase>>

\* RETRIABLE_ERRORS without its last phrase.
RETRIABLE_ERRORS_NoSyntaxError ==
    <<GatewayTimeoutPhrase, ETIMEDOUTPhrase, ECONNRESETPhrase>>

\* RETRIABLE_ERRORS (part_000:6-11).
RETRIABLE_ERRORS ==
    <<GatewayTimeoutPhrase, ETIMEDOUTPhrase, ECONNRESETPhrase, SyntaxErrorPhrase>>

(***************************************************************************)
(* JSON values and JSON.parse                                              *)
(***************************************************************************)

\* A JavaScript value as far as the response carries one: every value is a
\* record of the same shape; t is its type, s the text of a string or number,
\* kids the members of an object (k, v) or the elements of an array (v).
JV(t, s, kids) == [t |-> t, s |-> s, kids |-> kids]
Undefined == JV("undefined", <<>>, <<>>)
JNull == JV("null", <<>>, <<>>)
JTrue == JV("true", <<>>, <<>>)
JFalse == JV("false", <<>>, <<>>)
JStr(s) == JV("string", s, <<>>)
JNum(s) == JV("number", s, <<>>)
JObj(kids) == JV("object", <<>>, kids)
JArr(kids) == JV("array", <<>>, kids)
Member(k, v) == [k |-> k, v |-> v]

DigitChars == {"0", "1", "2", "3", "4", "5", "6", "7", "8", "9"}

\* The text lit stands in s at position i.
HasAt(s, i, lit) ==
    /\ i + Len(lit) - 1 <= Len(s)
    /\ \A j \in 1..Len(lit) : s[i + j - 1] = lit[j]

ParseFail == [ok |-> FALSE, v |-> Undefined, next |-> 0]
ParseOk(v, next) == [ok |-> TRUE, v |-> v, next |-> next]

\* The first position at or after i that holds no digit.
RECURSIVE DigitsEnd(_, _)
DigitsEnd(s, i) ==
    IF i <= Len(s) /\ s[i] \in DigitChars THEN DigitsEnd(s, i + 1) ELSE i

\* The position of the quote closing a string whose text starts at i, or 0
\* (no escape sequences: a backslash ends the parse).
RECURSIVE StringEnd(_, _)
StringEnd(s, i) ==
    IF i > Len(s) \/ s[i] = "\\" THEN 0
    ELSE IF s[i] = "\"" THEN i
    ELSE StringEnd(s, i + 1)

ParseString(s, i) ==
    IF i <= Len(s) /\ s[i] = "\""
    THEN LET e == StringEnd(s, i + 1)
         IN  IF e = 0 THEN ParseFail
             ELSE ParseOk(JStr(SubSeq(s, i + 1, e - 1)), e + 1)
    ELSE ParseFail

ParseNumber(s, i) ==
    LET d == IF i <= Len(s) /\ s[i] = "-" THEN i + 1 ELSE i
        e == DigitsEnd(s, d)
    IN  IF e = d THEN ParseFail ELSE ParseOk(JNum(SubSeq(s, i, e - 1)), e)

RECURSIVE ParseValue(_, _)
RECURSIVE ParseMembers(_, _, _)
RECURSIVE ParseElements(_, _, _)

\* The members of an object after its opening brace or a comma: k:v pairs
\* up to the closing brace.
ParseMembers(s, i, acc) ==
    LET k == ParseString(s, i)
    IN  IF ~k.ok \/ k.next > Len(s) \/ s[k.next] # ":" THEN ParseFail
        ELSE LET v == ParseValue(s, k.next + 1)
                 kids == Append(acc, Member(k.v.s, v.v))
             IN  IF ~v.ok \/ v.next > Len(s) THEN ParseFail
                 ELSE IF s[v.next] = "}" THEN ParseOk(JObj(kids), v.next + 1)
                 ELSE IF s[v.next] = "," THEN ParseMembers(s, v.next + 1, kids)
                 ELSE ParseFail

\* The elements of an array after its opening bracket or a comma.
ParseElements(s, i, acc) ==
    LET v == ParseValue(s, i)
        kids == Append(acc, Member(<<>>, v.v))
    IN  IF ~v.ok \/ v.next > Len(s) THEN ParseFail
        ELSE IF s[v.next] = "]" THEN ParseOk(JArr(kids), v.next + 1)
        ELSE IF s[v.next] = "," THEN ParseElements(s, v.next + 1, kids)
        ELSE ParseFail

\* One JSON value of the text s starting at position i (no white space).
ParseValue(s, i) ==
    IF i > Len(s) THEN ParseFail
    ELSE IF HasAt(s, i, NullLit) THEN ParseOk(JNull, i + Len(NullLit))
    ELSE IF HasAt(s, i, TrueLit) THEN ParseOk(JTrue, i + Len(TrueLit))
    ELSE IF HasAt(s, i, FalseLit) THEN ParseOk(JFalse, i + Len(FalseLit))
    ELSE IF s[i] = "\"" THEN ParseString(s, i)
    ELSE IF s[i] = "{"
         THEN IF i < Len(s) /\ s[i + 1] = "}" THEN ParseOk(JObj(<<>>), i + 2)
              ELSE ParseMembers(s, i + 1, <<>>)
    ELSE IF s[i] = "["
         THEN IF i < Len(s) /\ s[i + 1] = "]" THEN ParseOk(JArr(<<>>), i + 2)
              ELSE ParseElements(s, i + 1, <<>>)
    ELSE ParseNumber(s, i)

\* JSON.parse (part_000:111): the value of the whole text, or a failure
\* (ok = FALSE) where JSON.parse throws a SyntaxError.
JSONParse(s) ==
    LET r == ParseValue(s, 1)
    IN  IF r.ok /\ r.next = Len(s) + 1 THEN r ELSE ParseFail

\* data.result, data.error (part_000:112-113): the property of an object
\* (the last member of that name), undefined on any other non-null value.
RECURSIVE Lookup(_, _, _)
Lookup(kids, key, i) ==
    IF i = 0 THEN Undefined
    ELSE IF kids[i].k = key THEN kids[i].v
    ELSE Lookup(kids, key, i - 1)

GetProp(data, key) ==
    IF data.t = "object" THEN Lookup(data.kids, key, Len(data.kids)) ELSE Undefined

(***************************************************************************)
(* JavaScript conversions the code applies                                 *)
(***************************************************************************)

\* Truthiness, as `||`, `!` and `? :` test it.
Truthy(v) ==
    CASE v.t \in {"undefined", "null", "false"} -> FALSE
      [] v.t = "string" -> v.s # <<>>
      [] v.t = "number" -> v.s \notin {<<"0">>, <<"-", "0">>}
      [] OTHER -> TRUE

RECURSIVE ToText(_)
RECURSIVE JoinTexts(_, _)

\* Array.prototype.join(','): null and undefined elements give no text.
JoinTexts(kids, i) ==
    IF i > Len(kids) THEN <<>>
    ELSE (IF i > 1 THEN <<",">> ELSE <<>>)
         \o (IF kids[i].v.t \in {"undefined", "null"} THEN <<>> ELSE ToText(kids[i].v))
         \o JoinTexts(kids, i + 1)

\* String(v): what toString() and a template literal give (part_000:121, 155).
ToText(v) ==
    CASE v.t \in {"string", "number"} -> v.s
      [] v.t = "true" -> TrueLit
      [] v.t = "false" -> FalseLit
      [] v.t = "null" -> NullLit
      [] v.t = "undefined" -> UndefinedText
      [] v.t = "array" -> JoinTexts(v.kids, 1)
      [] OTHER -> ObjectObjectText

\* The escapes of a string in JSON text: the quote and the backslash.
RECURSIVE EscapeChars(_, _)
EscapeChars(s, i) ==
    IF i > Len(s) THEN <<>>
    ELSE (IF s[i] \in {"\"", "\\"} THEN <<"\\", s[i]>> ELSE <<s[i]>>)
         \o EscapeChars(s, i + 1)

QuoteString(s) == <<"\"">> \o EscapeChars(s, 1) \o <<"\"">>

RECURSIVE Stringify(_)
RECURSIVE StringifyMembers(_, _, _)
RECURSIVE StringifyElements(_, _)

\* The members of an object: those whose value is undefined are left out.
StringifyMembers(kids, i, first) ==
    IF i > Len(kids) THEN <<>>
    ELSE IF kids[i].v.t = "undefined" THEN StringifyMembers(kids, i + 1, first)
    ELSE (IF first THEN <<>> ELSE <<",">>)
         \o QuoteString(kids[i].k) \o <<":">> \o Stringify(kids[i].v)
         \o StringifyMembers(kids, i + 1, FALSE)

\* The elements of an array: an undefined element is written null.
StringifyElements(kids, i) ==
    IF i > Len(kids) THEN <<>>
    ELSE (IF i > 1 THEN <<",">> ELSE <<>>)
         \o (IF kids[i].v.t = "undefined" THEN NullLit ELSE Stringify(kids[i].v))
         \o StringifyElements(kids, i + 1)

\* JSON.stringify (part_000:167, 175); of undefined it is undefined, which
\* encodeURIComponent then reads as the text undefined.
Stringify(v) ==
    CASE v.t = "string" -> QuoteString(v.s)
      [] v.t = "number" -> v.s
      [] v.t = "true" -> TrueLit
      [] v.t = "false" -> FalseLit
      [] v.t = "null" -> NullLit
      [] v.t = "undefined" -> UndefinedText
      [] v.t = "array" -> <<"[">> \o StringifyElements(v.kids, 1) \o <<"]">>
      [] OTHER -> <<"{">> \o StringifyMembers(v.kids, 1, TRUE) \o <<"}">>

\* encodeURIComponent (part_000:175) on ASCII text: the percent escapes of
\* the characters of JSON text and of URLs that are neither alphanumeric nor
\* one of - _ . ! ~ * ( ).
PercentEscapes ==
    <<<<" ", "2", "0">>, <<"\"", "2", "2">>, <<"#", "2", "3">>, <<"$", "2", "4">>,
      <<"%", "2", "5">>, <<"&", "2", "6">>, <<"+", "2", "B">>, <<",", "2", "C">>,
      <<"/", "2", "F">>, <<":", "3", "A">>, <<";", "3", "B">>, <<"<", "3", "C">>,
      <<"=", "3", "D">>, <<">", "3", "E">>, <<"?", "3", "F">>, <<"@", "4", "0">>,
      <<"[", "5", "B">>, <<"\\", "5", "C">>, <<"]", "5", "D">>, <<"^", "5", "E">>,
      <<"{", "7", "B">>, <<"|", "7", "C">>, <<"}", "7", "D">>>>

EncodeChar(ch) ==
    IF \E i \in 1..Len(PercentEscapes) : PercentEscapes[i][1] = ch
    THEN LET i == CHOOSE i \in 1..Len(PercentEscapes) : PercentEscapes[i][1] = ch
         IN  <<"%", PercentEscapes[i][2], PercentEscapes[i][3]>>
    ELSE <<ch>>

RECURSIVE EncodeFrom(_, _)
EncodeFrom(s, i) ==
    IF i > Len(s) THEN <<>> ELSE EncodeChar(s[i]) \o EncodeFrom(s, i + 1)

EncodeURIComponent(s) == EncodeFrom(s, 1)

(***************************************************************************)
(* Failures                                                                *)
(***************************************************************************)

\* A thrown value: the name and the message of the Error object.
Err(name, message) == [name |-> name, message |-> message]
NoErr == Err(<<>>, <<>>)

\* err.toString() (part_000:61, 69): name: message, the name alone when
\* the message is empty.  The error classes of eth-json-rpc-errors and
\* json-rpc-error add the code (and a stack) to the string form; the phrases
\* of RETRIABLE_ERRORS can only come from the name and the message.
toString(err) ==
    IF err.message = <<>> THEN err.name ELSE err.name \o <<":", " ">> \o err.message

\* createInternalError (part_000:203-205).
createInternalError(msg) == Err(ErrorName, msg)

\* rpcErrors.methodNotFound() (part_000:92), with the message the library
\* gives it; new JsonRpcError.MethodNotFound() in the ctor variant
\* (part_000:274).
methodNotFound == Err(ErrorName, MethodNotFoundMsg)

\* The SyntaxError JSON.parse throws and the TypeError of reading a property
\* of null (part_000:111-112).
jsonSyntaxError == Err(SyntaxErrorName, JsonSyntaxMsg)
nullResultError == Err(TypeErrorName, NullResultMsg)

\* canRetry (part_000:61).
canRetry(err) ==
    \E i \in 1..Len(RETRIABLE_ERRORS) : Includes(toString(err), RETRIABLE_ERRORS[i])

\* retriesExhaustedErr (part_000:69-70).
retriesExhaustedErr(err) ==
    Err(ErrorName, ExhaustedPrefix \o toString(err) \o ExhaustedSuffix)

(***************************************************************************)
(* Request Translator                                                      *)
(***************************************************************************)

\* postMethods (./postMethods, required at part_000:3): the methods sent as
\* an HTTP POST.
postMethods ==
    <<EthCall, EthEstimateGas, EthSendRawTransaction, EthGetBlockByNumber, EthBlockNumber>>

isPostMethod(method) ==
    \E i \in 1..Len(postMethods) : method = JStr(postMethods[i])

\* cleanReq as the request itself: every property of req is forwarded.
cleanReqWholeRequest(req) == req

\* cleanReq (part_000:137-142): the four forwarded properties of the request.
cleanReq(req) ==
    JObj(<<Member(IdKey, GetProp(req, IdKey)),
           Member(JsonrpcKey, GetProp(req, JsonrpcKey)),
           Member(MethodKey, GetProp(req, MethodKey)),
           Member(ParamsKey, GetProp(req, ParamsKey))>>)

\* getCacheHeader: the header and its value in the brave variant
\* (part_000:116-131), the header alone, set to true, in the ctor variant
\* (part_000:300-309, 334-337); the inline variant has none.
getCacheHeader(v, method, req) ==
    IF v = "inline" THEN <<>>
    ELSE IF method = JStr(EthGetBlockByNumber)
         THEN <<Member(XEthGetBlockHeader,
                       IF v = "brave" THEN ToText(GetProp(req, ParamsKey)) ELSE TrueLit)>>
    ELSE IF method = JStr(EthBlockNumber)
         THEN <<Member(XEthBlockHeader, TrueLit)>>
    ELSE <<>>

\* The Infura-Source header (part_000:155, 170-174).
sourceHeader(source, req) ==
    LET requestOrigin ==
            IF Truthy(GetProp(req, OriginKey)) THEN ToText(GetProp(req, OriginKey))
            ELSE InternalText
    IN  IF source # <<>>
        THEN <<Member(InfuraSourceHeader, source \o <<"/">> \o requestOrigin)>>
        ELSE <<>>

\* The URL before the method suffix (part_000:146-147, 324; index.js:103):
\* base is the text up to the project id, projectId the text the code has
\* appended when fetchConfigFromReq returns. In the inline variant the
\* project id is appended by the lookup's callback (index.js:105-107), which
\* runs after the URL has been returned.
baseUrl(v, network, dev) ==
    IF v = "brave"
    THEN HttpsText \o network \o <<"-">>
         \o (IF dev THEN BraveStagingHost ELSE BraveHost) \o DotComSlash
    ELSE HttpsText \o network \o InfuraPath

\* fetchConfigFromReq (part_000:133-180, 311-352; index.js:90-129), given
\* the cached project id and key: the URL, the fetch parameters, and req as
\* the function leaves the object it was passed (it builds cleanReq beside
\* it and assigns to none of its properties).
fetchConfigFromReq(v, network, req, source, dev, projectId, key) ==
    LET clean == cleanReq(req)
        method == GetProp(clean, MethodKey)
        params == GetProp(clean, ParamsKey)
        url == [base |-> baseUrl(v, network, dev),
                projectId |-> IF v = "inline" THEN <<>> ELSE projectId,
                suffix |-> <<>>]
    IN  IF isPostMethod(method)
        THEN [req |-> req,
              fetchUrl |-> url,
              fetchParams |->
                [method |-> PostText,
                 headers |->
                    <<Member(AcceptHeader, ApplicationJson),
                      Member(ContentTypeHeader, ApplicationJson)>>
                    \o (IF v = "brave"
                        THEN <<Member(XEthMethodHeader, ToText(method))>> ELSE <<>>)
                    \o sourceHeader(source, req)
                    \o getCacheHeader(v, method, clean)
                    \o (IF v = "brave" /\ key # <<>>
                        THEN <<Member(XBraveKeyHeader, key)>> ELSE <<>>),
                 hasBody |-> TRUE,
                 body |-> Stringify(clean)]]
        ELSE [req |-> req,
              fetchUrl |->
                [url EXCEPT !.suffix =
                    <<"/">> \o ToText(method) \o ParamsQuery
                    \o EncodeURIComponent(Stringify(params))],
              fetchParams |->
                [method |-> GetText,
                 headers |-> sourceHeader(source, req),
                 hasBody |-> FALSE,
                 body |-> <<>>]]

NoFetch ==
    [req |-> Undefined,
     fetchUrl |-> [base |-> <<>>, projectId |-> <<>>, suffix |-> <<>>],
     fetchParams |-> [method |-> <<>>, headers |-> <<>>, hasBody |-> FALSE, body |-> <<>>]]

(***************************************************************************)
(* Transport Invoker                                                       *)
(***************************************************************************)

\* What one HTTP call comes to: a response (status, body) or a rejection of
\* fetch with a network error.
Response(status, body) ==
    [kind |-> "response", status |-> status, body |-> body, err |-> NoErr]
Rejection(err) ==
    [kind |-> "reject", status |-> 0, body |-> <<>>, err |-> err]
NoOutcome == [kind |-> "none", status |-> 0, body |-> <<>>, err |-> NoErr]

\* response.ok: a status of 200..299.
ResponseOk(status) == status >= 200 /\ status <= 299

InitialRes == [result |-> Undefined, error |-> Undefined]

\* How performFetch ends: wrote tells whether it reached an assignment to
\* res (part_000:107, 112-113).
Threw(err, res, parsed) ==
    [threw |-> TRUE, err |-> err, res |-> res, parsed |-> parsed, wrote |-> FALSE]
Returned(res, parsed) ==
    [threw |-> FALSE, err |-> NoErr, res |-> res, parsed |-> parsed, wrote |-> TRUE]

\* statusError with case 418 falling through to the cases 503 and 504.
statusErrorFallsThrough418(status, rawData) ==
    CASE status = 405 -> methodNotFound
      [] status \in {418, 503, 504} -> createInternalError(GatewayTimeoutMsg)
      [] OTHER -> createInternalError(rawData)

\* statusError without case 405: the status takes the default branch.
statusErrorNo405(status, rawData) ==
    CASE status = 418 -> createInternalError(RateLimitMsg)
      [] status \in {503, 504} -> createInternalError(GatewayTimeoutMsg)
      [] OTHER -> createInternalError(rawData)

\* The failure of a response that is not ok (part_000:89-104).
statusError(status, rawData) ==
    CASE status = 405 -> methodNotFound
      [] status = 418 -> createInternalError(RateLimitMsg)
      [] status \in {503, 504} -> createInternalError(GatewayTimeoutMsg)
      [] OTHER -> createInternalError(rawData)

\* performFetch without the Not Found case of part_000:106-109.
performFetchNoNotFound(req, res, out) ==
    IF out.kind = "reject" THEN Threw(out.err, res, FALSE)
    ELSE IF ~ResponseOk(out.status)
    THEN Threw(statusError(out.status, out.body), res, FALSE)
    ELSE LET data == JSONParse(out.body)
         IN  IF ~data.ok THEN Threw(jsonSyntaxError, res, TRUE)
             ELSE IF data.v.t = "null" THEN Threw(nullResultError, res, TRUE)
             ELSE Returned([result |-> GetProp(data.v, ResultKey),
                            error |-> GetProp(data.v, ErrorKey)], TRUE)

\* performFetch copying the body's error only when the body has no result.
performFetchOneOfTwo(req, res, out) ==
    IF out.kind = "reject" THEN Threw(out.err, res, FALSE)
    ELSE IF ~ResponseOk(out.status)
    THEN Threw(statusError(out.status, out.body), res, FALSE)
    ELSE IF GetProp(req, MethodKey) = JStr(EthGetBlockByNumber) /\ out.body = NotFoundText
    THEN Returned([res EXCEPT !.result = JNull], FALSE)
    ELSE LET data == JSONParse(out.body)
         IN  IF ~data.ok THEN Threw(jsonSyntaxError, res, TRUE)
             ELSE IF data.v.t = "null" THEN Threw(nullResultError, res, TRUE)
             ELSE Returned([result |-> GetProp(data.v, ResultKey),
                            error |-> IF GetProp(data.v, ResultKey) = Undefined
                                      THEN GetProp(data.v, ErrorKey)
                                      ELSE Undefined], TRUE)

\* performFetch recording the body of a response that is not ok in res.error
\* before it throws.
performFetchRecordsError(req, res, out) ==
    IF out.kind = "reject" THEN Threw(out.err, res, FALSE)
    ELSE IF ~ResponseOk(out.status)
    THEN Threw(statusError(out.status, out.body), [res EXCEPT !.error = JStr(out.body)],
               FALSE)
    ELSE IF GetProp(req, MethodKey) = JStr(EthGetBlockByNumber) /\ out.body = NotFoundText
    THEN Returned([res EXCEPT !.result = JNull], FALSE)
    ELSE LET data == JSONParse(out.body)
         IN  IF ~data.ok THEN Threw(jsonSyntaxError, res, TRUE)
             ELSE IF data.v.t = "null" THEN Threw(nullResultError, res, TRUE)
             ELSE Returned([result |-> GetProp(data.v, ResultKey),
                            error |-> GetProp(data.v, ErrorKey)], TRUE)

\* performFetch from the settling of fetch on (part_000:86-114): whether it
\* throws, the failure, the response envelope it leaves and whether
\* JSON.parse ran.
performFetch(req, res, out) ==
    IF out.kind = "reject" THEN Threw(out.err, res, FALSE)
    ELSE IF ~ResponseOk(out.status)
    THEN Threw(statusError(out.status, out.body), res, FALSE)
    ELSE IF GetProp(req, MethodKey) = JStr(EthGetBlockByNumber) /\ out.body = NotFoundText
    THEN Returned([res EXCEPT !.result = JNull], FALSE)
    ELSE LET data == JSONParse(out.body)
         IN  IF ~data.ok THEN Threw(jsonSyntaxError, res, TRUE)
             ELSE IF data.v.t = "null" THEN Threw(nullResultError, res, TRUE)
             ELSE Returned([result |-> GetProp(data.v, ResultKey),
                            error |-> GetProp(data.v, ErrorKey)], TRUE)

(***************************************************************************)
(* State                                                                   *)
(***************************************************************************)

VARIABLES
    variant,                  \* which of the repository's three variants runs
    mw,                       \* createInfuraMiddleware: its outcome and closure
    BRAVE_INFURA_PROJECT_ID,  \* part_000:14, 222
    BRAVE_KEY,                \* part_000:13
    providerReady,            \* chrome.braveWallet has its project id and key
    hasGetBraveKey,           \* 'getBraveKey' in chrome.braveWallet
    ctorLookup,               \* the getProjectID call of part_000:229
    call                      \* the calls of the middleware's handler

vars ==
    <<variant, mw, BRAVE_INFURA_PROJECT_ID, BRAVE_KEY, providerReady, hasGetBraveKey,
      ctorLookup, call>>

Variants == {"brave", "ctor", "inline"}

\* maxAttempts when opts names none (part_000:40).
DefaultMaxAttempts == 5

\* The largest maxAttempts the options name.
MaxOptAttempts == 3
\* The number of calls that run concurrently, and the largest maxAttempts of
\* their middleware.
NumCalls == 2
MaxConcAttempts == 2

Opts(hasMax, max, network, source, dev) ==
    [hasMaxAttempts |-> hasMax, maxAttempts |-> max, network |-> network,
     source |-> source, dev |-> dev]

\* The options createInfuraMiddleware is given: none, every maxAttempts of
\* -1..MaxOptAttempts, and one with network, source and dev set.
OptsChoices ==
    {Opts(FALSE, 0, <<>>, <<>>, FALSE)}
    \cup {Opts(TRUE, m, <<>>, <<>>, FALSE) : m \in -1..MaxOptAttempts}
    \cup {Opts(TRUE, 2, RopstenText, MetamaskText, TRUE)}

ConcOpts ==
    {Opts(TRUE, m, <<>>, MetamaskText, FALSE) : m \in 1..MaxConcAttempts}

Request(method, params, extra) ==
    JObj(<<Member(IdKey, JNum(<<"1">>)), Member(JsonrpcKey, JStr(JsonrpcVersion)),
           Member(MethodKey, JStr(method)), Member(ParamsKey, JArr(params))>> \o extra)

\* The requests the handler is given: a POST method with a cache header, a
\* POST method carrying an origin, a GET method.
Requests ==
    {Request(EthGetBlockByNumber, <<Member(<<>>, JStr(HexOne)), Member(<<>>, JFalse)>>, <<>>),
     Request(EthCall, <<Member(<<>>, JObj(<<Member(<<"t", "o">>, JStr(HexOne))>>)),
                        Member(<<>>, JStr(LatestText))>>,
             <<Member(OriginKey, JStr(ExampleOrigin))>>),
     Request(EthGetBalance, <<Member(<<>>, JStr(HexOne)), Member(<<>>, JStr(LatestText))>>,
             <<>>)}

ConcRequests ==
    {Request(EthGetBalance, <<Member(<<>>, JStr(HexOne)), Member(<<>>, JStr(LatestText))>>,
             <<>>)}

\* What the gateway and the network answer one HTTP call with.
Outcomes ==
    {Response(200, b) : b \in {BodyResult, BodyNullResult, BodyError, BodyBoth, BodyNull,
                               NotFoundText, BodyHtml}}
    \cup {Response(201, BodyResult), Response(404, NotFoundText)}
    \cup {Response(s, BodyDenied) : s \in {405, 418, 503, 504}}
    \cup {Response(500, b) : b \in {BodyUpstreamSyntax, BodyLowerTimeout, BodyDenied}}
    \cup {Rejection(Err(FetchErrorName, m)) :
            m \in {ConnTimedOutMsg, ConnResetMsg, PermissionDeniedMsg}}

ConcOutcomes ==
    {Response(200, BodyResult), Response(503, BodyDenied), Response(405, BodyDenied)}

\* A call of the handler (part_000:47-81): pc is its position, req and res
\* its arguments, attempt the loop variable, err the failure caught, thrown
\* the failure it ends with, fetch the HTTP call it last issued.  The other
\* fields record what has happened: fetches the HTTP calls issued, retried
\* the failures followed by another attempt, out and parsed the answer to
\* the HTTP call that settled last and whether JSON.parse ran on it, timers
\* the setTimeout calls made, lookups the getProjectID calls of index.js:105
\* not yet answered, beganEmpty whether the cached project id was empty when
\* the call began, lookedUp whether a lookup this call awaited has completed
\* and answer what it returned, given the request as the handler received
\* it, settles the HTTP calls that have settled and failures those of them
\* that ended in a failure, writes the runs of performFetch that assigned
\* to res, lookupCalls the project-id lookups the call has made and
\* lookupAt the number of HTTP calls issued when it made the last one.
IdleCall ==
    [pc |-> "idle", req |-> Undefined, res |-> InitialRes, attempt |-> 0, err |-> NoErr,
     thrown |-> NoErr, fetch |-> NoFetch, fetches |-> 0, retried |-> 0,
     out |-> NoOutcome, parsed |-> FALSE, timers |-> 0, lookups |-> 0,
     beganEmpty |-> FALSE, lookedUp |-> FALSE, answer |-> <<>>,
     given |-> Undefined, settles |-> 0, failures |-> 0, writes |-> 0,
     lookupCalls |-> 0, lookupAt |-> 0]

NoOpts == Opts(FALSE, 0, <<>>, <<>>, FALSE)

InitWith(n) ==
    /\ variant \in Variants
    /\ mw = [state |-> "none", opts |-> NoOpts, network |-> <<>>, maxAttempts |-> 0,
             source |-> <<>>, dev |-> FALSE]
    /\ BRAVE_INFURA_PROJECT_ID = <<>>
    /\ BRAVE_KEY = <<>>
    /\ providerReady = FALSE
    /\ hasGetBraveKey \in (IF variant = "brave" THEN BOOLEAN ELSE {FALSE})
    /\ ctorLookup = "none"
    /\ call = [c \in 1..n |-> IdleCall]

Init == InitWith(1)
InitConc == InitWith(NumCalls)

(***************************************************************************)
(* createInfuraMiddleware                                                  *)
(***************************************************************************)

\* opts.maxAttempts || 5 (part_000:40).
maxAttemptsOf(o) ==
    IF o.hasMaxAttempts /\ o.maxAttempts # 0 THEN o.maxAttempts ELSE DefaultMaxAttempts

\* createInfuraMiddleware(opts) (part_000:38-46, 224-236; index.js:18-26):
\* the closure's constants, the ctor variant's lookup, and the validation
\* of maxAttempts.
Construct(o) ==
    /\ mw.state = "none"
    /\ mw' = [state |-> IF maxAttemptsOf(o) = 0 THEN "threw" ELSE "built",
              opts |-> o,
              network |-> IF o.network # <<>> THEN o.network ELSE MainnetText,
              maxAttempts |-> maxAttemptsOf(o),
              source |-> o.source,
              dev |-> o.dev]
    /\ ctorLookup' = IF variant = "ctor" THEN "pending" ELSE ctorLookup
    /\ UNCHANGED <<variant, BRAVE_INFURA_PROJECT_ID, BRAVE_KEY, providerReady,
                   hasGetBraveKey, call>>

\* The host environment initialises the wallet integration.
ProviderReady ==
    /\ ~providerReady
    /\ providerReady' = TRUE
    /\ UNCHANGED <<variant, mw, BRAVE_INFURA_PROJECT_ID, BRAVE_KEY, hasGetBraveKey,
                   ctorLookup, call>>

\* What getProjectID and getBraveKey hand their callbacks.
projectIdAnswer == IF providerReady THEN ProjectIdText ELSE <<>>
braveKeyAnswer == IF providerReady THEN BraveKeyText ELSE <<>>

\* The callback of part_000:229-231.
CtorLookupCallback ==
    /\ ctorLookup = "pending"
    /\ ctorLookup' = "done"
    /\ BRAVE_INFURA_PROJECT_ID' = projectIdAnswer
    /\ UNCHANGED <<variant, mw, BRAVE_KEY, providerReady, hasGetBraveKey, call>>

(***************************************************************************)
(* The handler                                                             *)
(***************************************************************************)

\* The loop test and, when it passes, the attempt up to its await of fetch
\* (part_000:56-58, 85-86): fetchConfigFromReq reads the cached credentials
\* and, in the inline variant, calls getProjectID.
LoopStep(cr, k) ==
    IF k <= mw.maxAttempts
    THEN LET cfg == fetchConfigFromReq(variant, mw.network, cr.req, mw.source,
                                       mw.dev, BRAVE_INFURA_PROJECT_ID, BRAVE_KEY)
         IN  [cr EXCEPT !.attempt = k, !.pc = "fetching", !.err = NoErr,
                        !.req = cfg.req,
                        !.fetch = cfg,
                        !.fetches = @ + 1,
                        !.lookups = IF variant = "inline" THEN @ + 1 ELSE @,
                        !.lookupCalls = IF variant = "inline" THEN @ + 1 ELSE @,
                        !.lookupAt = IF variant = "inline" THEN cr.fetches ELSE @]
    ELSE [cr EXCEPT !.attempt = k, !.pc = "returned"]

\* KeyStep without the resolve() of part_000:27-29: without getBraveKey the
\* promise of setBraveKey is never settled.
KeyStepNoResolve(cr) ==
    IF BRAVE_KEY = <<>>
    THEN [cr EXCEPT !.pc = "awaitBraveKey"]
    ELSE LoopStep(cr, 1)

\* if (!BRAVE_KEY) await setBraveKey() (part_000:52-54, 25-36): without
\* getBraveKey the promise is resolved at once and the TypeError of calling
\* it is dropped by the promise already settled.
KeyStep(cr) ==
    IF BRAVE_KEY = <<>>
    THEN [cr EXCEPT !.pc = IF hasGetBraveKey THEN "awaitBraveKey" ELSE "braveKeyResolved"]
    ELSE LoopStep(cr, 1)

\* if (!BRAVE_INFURA_PROJECT_ID) await setProjectId() (part_000:48-50).
ProjectIdStep(cr) ==
    IF BRAVE_INFURA_PROJECT_ID = <<>>
    THEN [cr EXCEPT !.pc = "awaitProjectId", !.lookupCalls = @ + 1,
                    !.lookupAt = cr.fetches]
    ELSE KeyStep(cr)

\* The handler is called with req and res (part_000:47, 237; index.js:27).
Begin(c, r) ==
    /\ mw.state = "built"
    /\ call[c].pc = "idle"
    /\ LET cr == [call[c] EXCEPT !.req = r, !.given = r,
                                 !.beganEmpty = (BRAVE_INFURA_PROJECT_ID = <<>>)]
       IN  call' = [call EXCEPT ![c] = IF variant = "brave" THEN ProjectIdStep(cr)
                                       ELSE LoopStep(cr, 1)]
    /\ UNCHANGED <<variant, mw, BRAVE_INFURA_PROJECT_ID, BRAVE_KEY, providerReady,
                   hasGetBraveKey, ctorLookup>>

\* The callback of setProjectId (part_000:18-21).
ProjectIdCallback(c) ==
    /\ call[c].pc = "awaitProjectId"
    /\ BRAVE_INFURA_PROJECT_ID' = projectIdAnswer
    /\ call' = [call EXCEPT ![c].pc = "projectIdResolved", ![c].lookedUp = TRUE,
                            ![c].answer = projectIdAnswer]
    /\ UNCHANGED <<variant, mw, BRAVE_KEY, providerReady, hasGetBraveKey, ctorLookup>>

\* The handler resumes after await setProjectId() (part_000:49-52).
AfterProjectId(c) ==
    /\ call[c].pc = "projectIdResolved"
    /\ call' = [call EXCEPT ![c] = KeyStep(call[c])]
    /\ UNCHANGED <<variant, mw, BRAVE_INFURA_PROJECT_ID, BRAVE_KEY, providerReady,
                   hasGetBraveKey, ctorLookup>>

\* The callback of setBraveKey (part_000:31-34).
BraveKeyCallback(c) ==
    /\ call[c].pc = "awaitBraveKey"
    /\ hasGetBraveKey
    /\ BRAVE_KEY' = braveKeyAnswer
    /\ call' = [call EXCEPT ![c].pc = "braveKeyResolved"]
    /\ UNCHANGED <<variant, mw, BRAVE_INFURA_PROJECT_ID, providerReady, hasGetBraveKey,
                   ctorLookup>>

\* The handler resumes after await setBraveKey() (part_000:53-56).
AfterBraveKey(c) ==
    /\ call[c].pc = "braveKeyResolved"
    /\ call' = [call EXCEPT ![c] = LoopStep(call[c], 1)]
    /\ UNCHANGED <<variant, mw, BRAVE_INFURA_PROJECT_ID, BRAVE_KEY, providerReady,
                   hasGetBraveKey, ctorLookup>>

\* The callback of index.js:105-107: it appends to the local fetchUrl of a
\* fetchConfigFromReq that has returned.
InlineLookupCallback(c) ==
    /\ call[c].lookups > 0
    /\ call' = [call EXCEPT ![c].lookups = @ - 1]
    /\ UNCHANGED <<variant, mw, BRAVE_INFURA_PROJECT_ID, BRAVE_KEY, providerReady,
                   hasGetBraveKey, ctorLookup>>

\* Catch rethrowing the caught failure itself when no attempt remains.
CatchRethrowsLast(cr, err) ==
    IF ~canRetry(err)
    THEN [cr EXCEPT !.pc = "threwOriginal", !.err = err, !.thrown = err]
    ELSE IF mw.maxAttempts - cr.attempt = 0
    THEN [cr EXCEPT !.pc = "threwExhausted", !.err = err, !.thrown = err]
    ELSE [cr EXCEPT !.pc = "delay", !.err = err, !.retried = @ + 1]

\* Catch without the canRetry test: every failure is retried.
CatchRetriesAll(cr, err) ==
    IF mw.maxAttempts - cr.attempt = 0
    THEN [cr EXCEPT !.pc = "threwExhausted", !.err = err,
                    !.thrown = retriesExhaustedErr(err)]
    ELSE [cr EXCEPT !.pc = "delay", !.err = err, !.retried = @ + 1]

\* The catch block (part_000:60-78): the failure is rethrown when no phrase
\* matches, wrapped when no attempt remains; otherwise the handler awaits a
\* function object, which starts no timer.
Catch(cr, err) ==
    IF ~canRetry(err)
    THEN [cr EXCEPT !.pc = "threwOriginal", !.err = err, !.thrown = err]
    ELSE IF mw.maxAttempts - cr.attempt = 0
    THEN [cr EXCEPT !.pc = "threwExhausted", !.err = err,
                    !.thrown = retriesExhaustedErr(err)]
    ELSE [cr EXCEPT !.pc = "delay", !.err = err, !.retried = @ + 1]

\* FetchSettles without the break of part_000:59: after a successful attempt
\* the loop goes on to its next iteration.
FetchSettlesNoBreak(c, out) ==
    /\ call[c].pc = "fetching"
    /\ LET cr == call[c]
           r == performFetch(cr.req, cr.res, out)
           seen == [cr EXCEPT !.out = out, !.parsed = r.parsed, !.res = r.res,
                              !.settles = @ + 1,
                              !.failures = IF r.threw THEN @ + 1 ELSE @,
                              !.writes = IF r.wrote THEN @ + 1 ELSE @]
       IN  call' = [call EXCEPT ![c] = IF r.threw THEN Catch(seen, r.err)
                                       ELSE LoopStep(seen, cr.attempt + 1)]
    /\ UNCHANGED <<variant, mw, BRAVE_INFURA_PROJECT_ID, BRAVE_KEY, providerReady,
                   hasGetBraveKey, ctorLookup>>

\* fetch settles and performFetch runs to its end (part_000:86-114), then
\* the handler's break or catch (part_000:59-78).
FetchSettles(c, out) ==
    /\ call[c].pc = "fetching"
    /\ LET cr == call[c]
           r == performFetch(cr.req, cr.res, out)
           seen == [cr EXCEPT !.out = out, !.parsed = r.parsed, !.res = r.res,
                              !.settles = @ + 1,
                              !.failures = IF r.threw THEN @ + 1 ELSE @,
                              !.writes = IF r.wrote THEN @ + 1 ELSE @]
       IN  call' = [call EXCEPT ![c] = IF r.threw THEN Catch(seen, r.err)
                                       ELSE [seen EXCEPT !.pc = "returned"]]
    /\ UNCHANGED <<variant, mw, BRAVE_INFURA_PROJECT_ID, BRAVE_KEY, providerReady,
                   hasGetBraveKey, ctorLookup>>

\* NextAttempt without the await of performFetch: the next iteration starts
\* while the HTTP call of the current one is still in flight.
NextAttemptNoAwait(c) ==
    /\ call[c].pc \in {"delay", "fetching"}
    /\ call' = [call EXCEPT ![c] = LoopStep(call[c], call[c].attempt + 1)]
    /\ UNCHANGED <<variant, mw, BRAVE_INFURA_PROJECT_ID, BRAVE_KEY, providerReady,
                   hasGetBraveKey, ctorLookup>>

\* The handler resumes after the await of part_000:74 and starts the next
\* iteration (part_000:56).
NextAttempt(c) ==
    /\ call[c].pc = "delay"
    /\ call' = [call EXCEPT ![c] = LoopStep(call[c], call[c].attempt + 1)]
    /\ UNCHANGED <<variant, mw, BRAVE_INFURA_PROJECT_ID, BRAVE_KEY, providerReady,
                   hasGetBraveKey, ctorLookup>>

Next ==
    \/ \E o \in OptsChoices : Construct(o)
    \/ ProviderReady
    \/ CtorLookupCallback
    \/ \E c \in DOMAIN call, r \in Requests : Begin(c, r)
    \/ \E c \in DOMAIN call : ProjectIdCallback(c)
    \/ \E c \in DOMAIN call : AfterProjectId(c)
    \/ \E c \in DOMAIN call : BraveKeyCallback(c)
    \/ \E c \in DOMAIN call : AfterBraveKey(c)
    \/ \E c \in DOMAIN call : InlineLookupCallback(c)
    \/ \E c \in DOMAIN call, out \in Outcomes : FetchSettles(c, out)
    \/ \E c \in DOMAIN call : NextAttempt(c)

\* One middleware and one call of its handler, over every option, request
\* and answer of the gateway.
Spec == Init /\ [][Next]_vars

NextConc ==
    \/ \E o \in ConcOpts : Construct(o)
    \/ ProviderReady
    \/ CtorLookupCallback
    \/ \E c \in DOMAIN call, r \in ConcRequests : Begin(c, r)
    \/ \E c \in DOMAIN call : ProjectIdCallback(c)
    \/ \E c \in DOMAIN call : AfterProjectId(c)
    \/ \E c \in DOMAIN call : BraveKeyCallback(c)
    \/ \E c \in DOMAIN call : AfterBraveKey(c)
    \/ \E c \in DOMAIN call : InlineLookupCallback(c)
    \/ \E c \in DOMAIN call, out \in ConcOutcomes : FetchSettles(c, out)
    \/ \E c \in DOMAIN call : NextAttempt(c)

\* What the claims about termination assume.  The credential provider calls
\* every callback it was handed; the transport settles every HTTP call: none
\* stays in flight for ever; the event loop resumes every continuation whose
\* promise has settled: no call stays for ever behind an await that is over.
Fairness ==
    /\ WF_vars(\E c \in DOMAIN call : ProjectIdCallback(c))
    /\ WF_vars(\E c \in DOMAIN call : BraveKeyCallback(c))
    /\ []<>(\A c \in DOMAIN call : call[c].pc # "fetching")
    /\ []<>(\A c \in DOMAIN call : call[c].pc # "projectIdResolved")
    /\ []<>(\A c \in DOMAIN call : call[c].pc # "braveKeyResolved")
    /\ []<>(\A c \in DOMAIN call : call[c].pc # "delay")

\* Spec under these assumptions.
SpecFair == Init /\ [][Next]_vars /\ Fairness

\* One middleware and NumCalls calls of its handler that interleave.
SpecConc == InitConc /\ [][NextConc]_vars

(***************************************************************************)
(* Claims                                                                  *)
(***************************************************************************)

\* The HTTP calls of a call that have settled.
Settled(cr) == IF cr.pc = "fetching" THEN cr.fetches - 1 ELSE cr.fetches

\* The attempt that settled last succeeded: a 2xx response whose body is the
\* Not Found text of eth_getBlockByNumber or JSON text of a non-null value.
LastSucceeded(cr) ==
    /\ cr.out.kind = "response"
    /\ ResponseOk(cr.out.status)
    /\ \/ GetProp(cr.req, MethodKey) = JStr(EthGetBlockByNumber) /\ cr.out.body = NotFoundText
       \/ JSONParse(cr.out.body).ok /\ JSONParse(cr.out.body).v # JNull

\* The response envelope a successful answer is to leave.
ResFrom(req, out) ==
    IF GetProp(req, MethodKey) = JStr(EthGetBlockByNumber) /\ out.body = NotFoundText
    THEN [result |-> JNull, error |-> Undefined]
    ELSE [result |-> GetProp(JSONParse(out.body).v, ResultKey),
          error |-> GetProp(JSONParse(out.body).v, ErrorKey)]

\* C1: when maxAttempts >= 1 and the attempts 1..k-1 of a call failed with a
\* retriable error and attempt k succeeded, the call has returned (Success),
\* the response holds what attempt k answered, and exactly k HTTP calls were
\* issued: none follows the successful one.
C1_SuccessAfterRetries ==
    \A c \in DOMAIN call :
        LET cr == call[c]
        IN  (mw.maxAttempts >= 1 /\ LastSucceeded(cr)) =>
                /\ cr.pc = "returned"
                /\ cr.thrown = NoErr
                /\ cr.res = ResFrom(cr.req, cr.out)
                /\ cr.fetches = cr.retried + 1
                /\ cr.attempt = cr.fetches
                /\ cr.fetches <= mw.maxAttempts

\* C1 witness: with maxAttempts = 3, two retried failures and a success on
\* the third attempt.
C1_Witness ==
    \E c \in DOMAIN call :
        /\ mw.maxAttempts = 3
        /\ call[c].pc = "returned"
        /\ LastSucceeded(call[c])
        /\ call[c].retried = 2
        /\ call[c].fetches = 3

\* C2: when maxAttempts >= 1 and every attempt of a call fails with a
\* retriable error, the call ends in ExhaustedError after exactly maxAttempts
\* attempts, with a new retries-exhausted error whose message embeds the
\* text of the last attempt's failure and which is not that failure.
C2_ExhaustedAfterMaxAttempts ==
    \A c \in DOMAIN call :
        LET cr == call[c]
        IN  /\ (/\ mw.maxAttempts >= 1
                /\ Settled(cr) = mw.maxAttempts
                /\ cr.retried = mw.maxAttempts - 1
                /\ cr.err # NoErr
                /\ canRetry(cr.err)) => cr.pc = "threwExhausted"
            /\ cr.pc = "threwExhausted" =>
                /\ cr.fetches = mw.maxAttempts
                /\ cr.attempt = mw.maxAttempts
                /\ cr.retried = mw.maxAttempts - 1
                /\ canRetry(cr.err)
                /\ cr.err = performFetch(cr.req, InitialRes, cr.out).err
                /\ cr.thrown.message =
                        ExhaustedPrefix \o toString(cr.err) \o ExhaustedSuffix
                /\ Includes(cr.thrown.message, toString(cr.err))
                /\ cr.thrown # cr.err

\* C2 witness: maxAttempts = 2 and both attempts fail with ETIMEDOUT.
C2_Witness ==
    \E c \in DOMAIN call :
        /\ mw.maxAttempts = 2
        /\ call[c].pc = "threwExhausted"
        /\ call[c].fetches = 2
        /\ call[c].err = Err(FetchErrorName, ConnTimedOutMsg)
        /\ Includes(call[c].thrown.message, ETIMEDOUTPhrase)

\* C3: when an attempt k fails with an error whose string form contains no
\* retriable phrase, the call ends in FatalError right after attempt k: no
\* further HTTP call is issued and the failure raised is the original one,
\* not wrapped.
C3_FatalPropagatesUnchanged ==
    \A c \in DOMAIN call :
        LET cr == call[c]
            failure == performFetch(cr.req, InitialRes, cr.out)
        IN  (/\ cr.out.kind # "none"
             /\ failure.threw
             /\ \A i \in 1..Len(RETRIABLE_ERRORS) :
                    ~Includes(toString(failure.err), RETRIABLE_ERRORS[i])) =>
                /\ cr.pc = "threwOriginal"
                /\ cr.thrown = failure.err
                /\ cr.fetches = cr.attempt
                /\ cr.fetches = cr.retried + 1

\* C3 witness: a permission denied failure on the second of three attempts.
C3_Witness ==
    \E c \in DOMAIN call :
        /\ mw.maxAttempts = 3
        /\ call[c].pc = "threwOriginal"
        /\ call[c].attempt = 2
        /\ call[c].fetches = 2
        /\ call[c].thrown = Err(FetchErrorName, PermissionDeniedMsg)

\* C4: constructing the middleware with maxAttempts = 0 raises a
\* configuration error at construction time: no middleware is returned and
\* no call of a handler ever begins with that configuration.
C4_ZeroMaxAttemptsRejected ==
    (mw.state # "none" /\ mw.opts.hasMaxAttempts /\ mw.opts.maxAttempts = 0) =>
        /\ mw.state = "threw"
        /\ \A c \in DOMAIN call : call[c].pc = "idle"

\* C5: between two consecutive attempts of a call the 1000 ms delay elapses:
\* every attempt after the first starts only after a timer set after the
\* failure before it, so a call that has issued n HTTP calls has set n - 1
\* timers.
C5_DelayBetweenAttempts ==
    \A c \in DOMAIN call : call[c].fetches >= 2 => call[c].timers >= call[c].fetches - 1

\* C6 as claimed: an attempt answered with status 418 is retried while
\* attempts remain and ends the call in ExhaustedError when none remains.
C6_RateLimitRetried ==
    \A c \in DOMAIN call :
        LET cr == call[c]
        IN  (cr.out.kind = "response" /\ cr.out.status = 418) =>
                IF Settled(cr) < mw.maxAttempts
                THEN cr.pc \in {"delay", "fetching"}
                ELSE cr.pc = "threwExhausted"

\* C6 as amended: an attempt answered with status 418 fails with the fixed
\* rate limit error, whose string form contains no retriable phrase: the
\* call ends in FatalError right after that attempt, the rate limit error is
\* raised unchanged and no further attempt is made, whatever maxAttempts is.
C6_RateLimitFatal ==
    \A c \in DOMAIN call :
        LET cr == call[c]
        IN  (cr.out.kind = "response" /\ cr.out.status = 418) =>
                /\ cr.pc = "threwOriginal"
                /\ cr.thrown = createInternalError(RateLimitMsg)
                /\ cr.fetches = cr.attempt
                /\ cr.fetches = cr.retried + 1

\* C6 witness: status 418 on the first attempt of a call with attempts left.
C6_Witness ==
    \E c \in DOMAIN call :
        /\ call[c].out.kind = "response"
        /\ call[c].out.status = 418
        /\ call[c].attempt = 1
        /\ mw.maxAttempts > 1
        /\ call[c].pc = "threwOriginal"

\* C7: an attempt answered with status 405 ends the call in FatalError with
\* the method not found error; it is never retried, whatever maxAttempts is
\* and however many attempts remain.
C7_MethodNotFoundFatal ==
    \A c \in DOMAIN call :
        LET cr == call[c]
        IN  (cr.out.kind = "response" /\ cr.out.status = 405) =>
                /\ cr.pc = "threwOriginal"
                /\ cr.thrown = Err(ErrorName, MethodNotFoundMsg)
                /\ cr.fetches = cr.attempt
                /\ cr.fetches = cr.retried + 1

\* C7 witness: status 405 on the first of five attempts.
C7_Witness ==
    \E c \in DOMAIN call :
        /\ call[c].out.kind = "response"
        /\ call[c].out.status = 405
        /\ call[c].attempt = 1
        /\ mw.maxAttempts = DefaultMaxAttempts
        /\ call[c].pc = "threwOriginal"

\* C8: an attempt answered with status 503 or 504 is a retriable gateway
\* timeout: while attempts remain it is followed by another attempt, and
\* when none remains the call ends in ExhaustedError, never in FatalError.
\* The state after such an answer, and the next step of the call after it.
GatewayTimeoutAnswered(cr) == cr.out.kind = "response" /\ cr.out.status \in {503, 504}

C8_State ==
    \A c \in DOMAIN call :
        LET cr == call[c]
        IN  GatewayTimeoutAnswered(cr) =>
                /\ cr.pc # "threwOriginal"
                /\ IF Settled(cr) < mw.maxAttempts
                   THEN /\ cr.pc \in {"delay", "fetching"}
                        /\ cr.pc = "fetching" => cr.fetches = Settled(cr) + 1
                   ELSE /\ cr.pc = "threwExhausted"
                        /\ Includes(cr.thrown.message, GatewayTimeoutPhrase)

C8_Step ==
    \A c \in DOMAIN call :
        (/\ GatewayTimeoutAnswered(call[c])
         /\ call[c].pc = "delay"
         /\ call'[c].pc # "delay") =>
            /\ call'[c].pc = "fetching"
            /\ call'[c].attempt = call[c].attempt + 1
            /\ call'[c].fetches = call[c].fetches + 1

C8_GatewayTimeoutRetried == []C8_State /\ [][C8_Step]_vars

\* C8 witness: status 503 on the last attempt, after a retried attempt.
C8_Witness ==
    \E c \in DOMAIN call :
        /\ call[c].out.kind = "response"
        /\ call[c].out.status = 503
        /\ call[c].retried >= 1
        /\ call[c].pc = "threwExhausted"

\* C9: when the method is eth_getBlockByNumber and an attempt is answered
\* with a 2xx status and the body Not Found, the call has returned with the
\* response result null, nothing is raised, the body was not given to
\* JSON.parse and no further attempt is made.
C9_NotFoundIsNullResult ==
    \A c \in DOMAIN call :
        LET cr == call[c]
        IN  (/\ GetProp(cr.req, MethodKey) = JStr(EthGetBlockByNumber)
             /\ cr.out.kind = "response"
             /\ ResponseOk(cr.out.status)
             /\ cr.out.body = NotFoundText) =>
                /\ cr.pc = "returned"
                /\ cr.res.result = JNull
                /\ cr.thrown = NoErr
                /\ ~cr.parsed
                /\ cr.fetches = cr.attempt
                /\ cr.fetches = cr.retried + 1

\* C9 witness: eth_getBlockByNumber answered 200 Not Found.
C9_Witness ==
    \E c \in DOMAIN call :
        /\ GetProp(call[c].req, MethodKey) = JStr(EthGetBlockByNumber)
        /\ call[c].out = Response(200, NotFoundText)
        /\ call[c].pc = "returned"
        /\ call[c].res.result = JNull

\* C10: in every interleaving of calls that begin while the cached project
\* id is empty, a call issues no HTTP call before a project id lookup it
\* awaited has completed; and when that lookup returned a non-empty project
\* id, the URL of the call's HTTP call holds a project id.
C10_LookupAwaitedBeforeFetch ==
    \A c \in DOMAIN call :
        LET cr == call[c]
        IN  /\ (cr.beganEmpty /\ cr.fetches > 0) => cr.lookedUp
            /\ (cr.fetches > 0 /\ cr.lookedUp /\ cr.answer # <<>>) =>
                    cr.fetch.fetchUrl.projectId # <<>>

\* C10 in the brave variant alone (part_000:47-58), where each call awaits
\* setProjectId() before its first attempt: there the statement holds in
\* every interleaving of SpecConc.
C10_HoldsWhereAwaited == variant = "brave" => C10_LookupAwaitedBeforeFetch

\* C11: for every configuration that construction accepts and every
\* behaviour of the transport, a call that has returned normally has had its
\* response populated by a successful attempt: at least one HTTP call was
\* issued and the one that settled last succeeded.  (A call that surfaced a
\* failure is in threwOriginal or threwExhausted instead.)
C11_NoReturnWithoutSuccess ==
    \A c \in DOMAIN call :
        LET cr == call[c]
        IN  (mw.state = "built" /\ cr.pc = "returned") =>
                /\ cr.fetches >= 1
                /\ LastSucceeded(cr)
                /\ cr.res = ResFrom(cr.req, cr.out)

\* A property of the response envelope that has been set.
Populated(v) == v # Undefined

\* C12 as stated: after any successful call, whatever body the gateway sent,
\* exactly one of res.result and res.error is populated.
C12_ExactlyOnePopulated ==
    \A c \in DOMAIN call :
        LET cr == call[c]
        IN  (cr.pc = "returned" /\ cr.fetches >= 1) =>
                (Populated(cr.res.result) # Populated(cr.res.error))

\* C12, amended: after a successful call whose body was parsed, res.result
\* and res.error are the result and error properties of the parsed body,
\* each copied as it is (undefined when the body lacks it); so exactly one of
\* the two is populated exactly when the body carries exactly one of them,
\* and a body that carries both leaves both populated.
C12_CopiedVerbatim ==
    \A c \in DOMAIN call :
        LET cr == call[c]
            data == JSONParse(cr.out.body).v
        IN  (cr.pc = "returned" /\ cr.fetches >= 1 /\ cr.parsed) =>
                /\ cr.res.result = GetProp(data, ResultKey)
                /\ cr.res.error = GetProp(data, ErrorKey)
                /\ (Populated(cr.res.result) # Populated(cr.res.error))
                   <=> (Populated(GetProp(data, ResultKey))
                        # Populated(GetProp(data, ErrorKey)))

\* A call has succeeded on a parsed body that carries both a result and an
\* error, and both are populated in the response.
C12_Witness ==
    \E c \in DOMAIN call :
        /\ call[c].pc = "returned"
        /\ call[c].parsed
        /\ call[c].out.body = BodyBoth
        /\ Populated(call[c].res.result)
        /\ Populated(call[c].res.error)

\* C13: for a request whose method is a POST method, whatever further
\* properties it carries, the body of every HTTP call issued is JSON text of
\* an object with exactly the members id, jsonrpc, method and params holding
\* the values of the request as the handler received it, and the request
\* object is at every point what the handler received.
C13_PostBodyIsCleanRequest ==
    \A c \in DOMAIN call :
        LET cr == call[c]
            body == JSONParse(cr.fetch.fetchParams.body)
        IN  (cr.fetches >= 1 /\ isPostMethod(GetProp(cr.given, MethodKey))) =>
                /\ cr.fetch.fetchParams.hasBody
                /\ body.ok
                /\ body.v = JObj(<<Member(IdKey, GetProp(cr.given, IdKey)),
                                   Member(JsonrpcKey, GetProp(cr.given, JsonrpcKey)),
                                   Member(MethodKey, GetProp(cr.given, MethodKey)),
                                   Member(ParamsKey, GetProp(cr.given, ParamsKey))>>)
                /\ cr.req = cr.given

\* A POST request that carries an origin is at its second attempt or later.
C13_Witness ==
    \E c \in DOMAIN call :
        /\ call[c].fetches >= 2
        /\ call[c].pc = "fetching"
        /\ isPostMethod(GetProp(call[c].given, MethodKey))
        /\ GetProp(call[c].given, OriginKey) = JStr(ExampleOrigin)
        /\ Len(JSONParse(call[c].fetch.fetchParams.body).v.kids) = 4

\* The handler has finished: it returned or it threw.
Terminal(cr) == cr.pc \in {"returned", "threwOriginal", "threwExhausted"}

\* C14: for every call that has begun, at every point, the HTTP calls issued
\* so far are at most maxAttempts, they are the attempts 1, 2, ... in order
\* (the loop variable is the number of HTTP calls issued), and the call is in
\* a terminal state only after at least one attempt.
C14_AttemptsBoundedAndNumbered ==
    \A c \in DOMAIN call :
        LET cr == call[c]
        IN  cr.pc # "idle" =>
                /\ cr.fetches >= 1 => cr.fetches <= mw.maxAttempts
                /\ cr.fetches >= 1 => cr.attempt = cr.fetches
                /\ Terminal(cr) => cr.fetches >= 1

\* C15: the attempts of one request are strictly sequential.  The HTTP calls
\* issued and not yet settled are at most one, and there is one exactly
\* while the handler awaits fetch; the attempts started and the HTTP calls
\* issued are the same number; and while an HTTP call is in flight every
\* earlier HTTP call of the request has settled in a failure, so attempt k+1
\* started only after the HTTP call of attempt k completed with a failure.
C15_AttemptsSequential ==
    \A c \in DOMAIN call :
        LET cr == call[c]
            inFlight == cr.fetches - cr.settles
        IN  /\ inFlight \in {0, 1}
            /\ (inFlight = 1) <=> (cr.pc = "fetching")
            /\ cr.fetches >= 1 => cr.attempt = cr.fetches
            /\ cr.pc = "fetching" => cr.failures = cr.fetches - 1
            /\ cr.failures \in {cr.settles, cr.settles - 1}
            /\ cr.pc = "delay" => cr.failures = cr.settles /\ cr.err # NoErr

\* The HTTP call of a third attempt is in flight.
C15_Witness ==
    \E c \in DOMAIN call :
        /\ call[c].pc = "fetching"
        /\ call[c].attempt = 3
        /\ call[c].failures = 2

\* C16: when the credential provider answers every lookup and the transport
\* completes every HTTP call, every call that has begun eventually reaches a
\* terminal state: the handler has returned (Success) or has thrown the
\* failure itself (FatalError) or the retries-exhausted error
\* (ExhaustedError); and it reaches one only, as a call in a terminal state
\* stays in it.
C16_Terminates ==
    /\ \A c \in {1} : (call[c].pc # "idle") ~> Terminal(call[c])
    /\ [][\A c \in DOMAIN call : Terminal(call[c]) => call'[c].pc = call[c].pc]_vars

\* A call has reached a terminal state after a retry and, in the variant
\* that awaits them, after both credential lookups.
C16_Witness ==
    \E c \in DOMAIN call :
        /\ Terminal(call[c])
        /\ call[c].retried >= 1
        /\ variant = "brave"
        /\ call[c].lookedUp
        /\ hasGetBraveKey

\* The HTTP call that settled last was answered with a 2xx status and a body
\* that is not JSON text and is not the Not Found of eth_getBlockByNumber.
InvalidJsonAnswered(cr) ==
    /\ cr.out.kind = "response"
    /\ ResponseOk(cr.out.status)
    /\ ~(GetProp(cr.req, MethodKey) = JStr(EthGetBlockByNumber) /\ cr.out.body = NotFoundText)
    /\ ~JSONParse(cr.out.body).ok

\* C17: an attempt answered with a 2xx status and a body that is not valid
\* JSON (the Not Found case of eth_getBlockByNumber apart) fails with the
\* parse error, whose string form contains SyntaxError.  While attempts
\* remain the call goes on to another attempt; when none remains it ends in
\* ExhaustedError, the error wrapping the parse error; never in FatalError.
\* The state after such an answer, and the next step of the call after it.
C17_State ==
    \A c \in DOMAIN call :
        LET cr == call[c]
        IN  InvalidJsonAnswered(cr) =>
                /\ cr.parsed
                /\ cr.pc \notin {"threwOriginal", "returned"}
                /\ cr.pc # "fetching" =>
                        /\ cr.err = jsonSyntaxError
                        /\ Includes(toString(cr.err), SyntaxErrorPhrase)
                /\ IF Settled(cr) < mw.maxAttempts
                   THEN /\ cr.pc \in {"delay", "fetching"}
                        /\ cr.pc = "fetching" => cr.fetches = Settled(cr) + 1
                   ELSE /\ cr.pc = "threwExhausted"
                        /\ cr.thrown = retriesExhaustedErr(jsonSyntaxError)

C17_Step ==
    \A c \in DOMAIN call :
        (/\ InvalidJsonAnswered(call[c])
         /\ call[c].pc = "delay"
         /\ call'[c].pc # "delay") =>
            /\ call'[c].pc = "fetching"
            /\ call'[c].attempt = call[c].attempt + 1
            /\ call'[c].fetches = call[c].fetches + 1

C17_InvalidJsonRetried == []C17_State /\ [][C17_Step]_vars

\* An attempt answered 200 with a body that is not JSON was followed by
\* another attempt, and the call ended in ExhaustedError on a body of that
\* kind.
C17_Witness ==
    \E c \in DOMAIN call :
        /\ InvalidJsonAnswered(call[c])
        /\ call[c].out.body = BodyHtml
        /\ call[c].retried >= 1
        /\ call[c].pc = "threwExhausted"

\* C18: across all attempts of one request performFetch assigns to the
\* response at most once.  When it has, the call has returned, the attempt
\* that wrote is the one that settled last and it succeeded, every attempt
\* before it failed, and no HTTP call was issued after it.  Until then the
\* response is as the handler received it.
C18_ResponseWrittenAtMostOnce ==
    \A c \in DOMAIN call :
        LET cr == call[c]
        IN  /\ cr.writes \in {0, 1}
            /\ cr.writes = 1 =>
                    /\ cr.pc = "returned"
                    /\ LastSucceeded(cr)
                    /\ cr.fetches = cr.settles
                    /\ cr.failures = cr.settles - 1
            /\ cr.writes = 0 => cr.res = InitialRes

\* A call has written its response once, at its third attempt.
C18_Witness ==
    \E c \in DOMAIN call :
        /\ call[c].writes = 1
        /\ call[c].failures = 2
        /\ call[c].res # InitialRes

\* C19: a call looks the project id up exactly when the cached project id
\* is empty as the call begins: once, before its first HTTP call and never
\* between attempts, and not at all when an id is cached.  A cached id that
\* is not empty stays as it is.  (So after a lookup that returned the empty
\* id the next call looks up again, and after one that stored an id no later
\* call does.)  The state part and the step part.
C19_State ==
    \A c \in DOMAIN call :
        LET cr == call[c]
        IN  cr.pc # "idle" =>
                /\ cr.lookupCalls = (IF cr.beganEmpty THEN 1 ELSE 0)
                /\ cr.lookupCalls >= 1 => cr.lookupAt = 0

C19_Step ==
    BRAVE_INFURA_PROJECT_ID # <<>> => BRAVE_INFURA_PROJECT_ID' = BRAVE_INFURA_PROJECT_ID

C19_LookupExactlyWhenEmpty == []C19_State /\ [][C19_Step]_vars

\* C19 in the variant that awaits setProjectId at the head of the handler
\* (part_000:47-50): there it holds, and a call that began with an id cached
\* issues its HTTP calls with that id.
C19_HoldsWherePerCall ==
    variant = "brave" =>
        /\ C19_State
        /\ \A c \in DOMAIN call :
                (call[c].pc # "idle" /\ ~call[c].beganEmpty) =>
                    /\ ~call[c].lookedUp
                    /\ call[c].fetches >= 1 =>
                            call[c].fetch.fetchUrl.projectId = ProjectIdText

\* C20: a failing attempt does not write the response.  While no attempt of
\* a call has succeeded, and so when the call has ended in FatalError or in
\* ExhaustedError, res.result and res.error are what they were when the
\* handler was called, whatever the failures were: any status that is not
\* 2xx, a rejection of fetch, a body that does not parse, a null body.
C20_FailuresLeaveResponse ==
    \A c \in DOMAIN call :
        LET cr == call[c]
        IN  /\ cr.pc \in {"threwOriginal", "threwExhausted"} =>
                    /\ cr.res = InitialRes
                    /\ cr.failures = cr.fetches
                    /\ cr.failures >= 1
            /\ cr.pc \in {"delay", "fetching"} => cr.res = InitialRes

\* A call has ended in ExhaustedError after three failing attempts, the last
\* on a body that JSON.parse rejected, with its response untouched.
C20_Witness ==
    \E c \in DOMAIN call :
        /\ call[c].pc = "threwExhausted"
        /\ call[c].failures = 3
        /\ call[c].parsed
        /\ call[c].res = InitialRes

=============================================================================
